---- MODULE Spec2Model ----
(***************************************************************************)
(* Model of the go-diameter peer state machine:                            *)
(*   - the server's CER handler (diam/sm/cer.go),                          *)
(*   - the client's Dial / handshake / watchdog (diam/sm client),          *)
(*   - diam.Dial (diam client),                                            *)
(*   - the CER parser as its tests use it (diam/sm/smparser tests),        *)
(*   - the AVP codec: NewAVP, Serialize, DecodeFromBytes (diam/avp.go),    *)
(*   - two Client.Dial handshakes sharing one StateMachine.                *)
(* A message is a record [cmd, flags, hbh, ete, rc, avps]; an AVP is a     *)
(* record [code, val, inner] (inner: the children of a grouped AVP).       *)
(***************************************************************************)
EXTENDS Integers, Sequences, FiniteSets, TLC

\* ------------------------------------------------------------------ bounds
\* Number of CERs the peer sends on one server connection.
MaxCERs == 2
\* Largest Client.MaxRetransmits tried.
MaxN == 2
\* Number of watchdog rounds (calls of Client.dwr) on one connection.
MaxRounds == 2

\* Largest number of application AVPs in a CER handed to the parser.
MaxApps == 2

\* Longest AVP payload, in bytes.
MaxData == 5
\* Largest length field and longest tail of a raw buffer handed to the decoder.
MaxDeclared == 13
MaxRest == 5

\* Number of CEAs a peer sends on one of two connections dialed together.
MaxCEAs == 2

\* ------------------------------------------------------------------ values
Nil == "nil"

\* The dictionary of the handshake tests: application id -> kind.
DictApps == (1001 :> "acct") @@ (1002 :> "auth")

\* Application ids a peer advertises: unregistered, acct, auth.
AppIDs == {1000, 1001, 1002}

\* Settings.FirmwareRevision and Settings.OriginStateID of the state machine.
FirmwareRevision == 1
OriginStateID == 0

Leaf(code, val) == [code |-> code, val |-> val, inner |-> <<>>]

Group(code, children) == [code |-> code, val |-> 0, inner |-> children]

\* m.NewAVP / m.AddAVP: append to the message's AVP list.
AddAVP(m, a) == [m EXCEPT !.avps = Append(@, a)]

AddAll(m, as) == [m EXCEPT !.avps = @ \o as]

\* The AVPs of m with the given code, in message order.
FindAVPs(m, code) == SelectSeq(m.avps, LAMBDA a : a.code = code)

\* Message.Answer: R cleared, identifiers copied, Result-Code set.
Answer(m, resultCode) ==
    [cmd |-> IF m.cmd = "CER" THEN "CEA" ELSE "DWA",
     flags |-> m.flags \ {"R", "T", "E"},
     hbh |-> m.hbh, ete |-> m.ete,
     rc |-> resultCode,
     avps |-> <<>>]

\* ------------------------------------------------------------------ connection
\* A connection: context (<<>> or <<peer metadata>>), closed flag, and the
\* ordered record of what happened on it (writes and closes).
NewConn == [ctx |-> <<>>, closed |-> FALSE, events |-> <<>>]

\* Conn.WriteTo: fails on a closed connection or on an I/O error.
WriteTo(c, msg, ioOK) ==
    IF c.closed \/ ~ioOK
    THEN [conn |-> c, err |-> "WriteError"]
    ELSE [conn |-> [c EXCEPT !.events = Append(@, [ev |-> "write", msg |-> msg])],
          err |-> Nil]

\* Conn.Close: idempotent.
Close(c) ==
    IF c.closed THEN c
    ELSE [c EXCEPT !.closed = TRUE,
                   !.events = Append(@, [ev |-> "close", msg |-> Nil])]

\* The messages written on c, in order.
Written(c) ==
    LET w == SelectSeq(c.events, LAMBDA e : e.ev = "write")
    IN [k \in 1..Len(w) |-> w[k].msg]

\* ------------------------------------------------------------------ CER parser
\* Application.validate: the advertised id is registered under the AVP's kind.
\* Mutant of AppOK: any registered id is accepted, whatever its kind.
AppOK_anyKind(a) == a.val \in DOMAIN DictApps

AppKind(a) == IF a.code = "Acct-Application-Id" THEN "acct" ELSE "auth"

AppOK(a) == a.val \in DOMAIN DictApps /\ DictApps[a.val] = AppKind(a)

\* The application AVPs a CER advertises, bare ones first (acct, then auth),
\* then those inside Vendor-Specific-Application-Id groups.
RECURSIVE Flatten(_)
Flatten(groups) ==
    IF groups = <<>> THEN <<>>
    ELSE SelectSeq(groups[1].inner,
                   LAMBDA a : a.code \in {"Acct-Application-Id", "Auth-Application-Id"})
         \o Flatten(Tail(groups))

\* Mutant of Advertised: Vendor-Specific-Application-Id groups are not read.
Advertised_bareOnly(m) ==
    FindAVPs(m, "Acct-Application-Id") \o FindAVPs(m, "Auth-Application-Id")

Advertised(m) ==
    FindAVPs(m, "Acct-Application-Id") \o FindAVPs(m, "Auth-Application-Id")
    \o Flatten(FindAVPs(m, "Vendor-Specific-Application-Id"))

\* Mutant of ApplicationParse: a CER advertising no application is accepted.
ApplicationParse_emptyOK(adv) ==
    LET bad == SelectSeq(adv, LAMBDA a : ~AppOK(a))
    IN  IF bad # <<>> THEN [failedAVP |-> <<bad[1]>>, err |-> "NoCommonApplication",
                            id |-> <<bad[1].val>>]
        ELSE [failedAVP |-> <<>>, err |-> Nil, id |-> <<>>]

\* Application.Parse over the advertised application AVPs: the first one the
\* dictionary does not accept is the failed AVP and its id the ID of the
\* NoCommonApplication error; none advertised is an error.
ApplicationParse(adv) ==
    LET bad == SelectSeq(adv, LAMBDA a : ~AppOK(a))
    IN  IF bad # <<>> THEN [failedAVP |-> <<bad[1]>>, err |-> "NoCommonApplication",
                            id |-> <<bad[1].val>>]
        ELSE IF adv = <<>> THEN [failedAVP |-> <<>>, err |-> "MissingApplication",
                                 id |-> <<>>]
        ELSE [failedAVP |-> <<>>, err |-> Nil, id |-> <<>>]

\* Mutant of Parse: the applications are checked before the inband security.
Parse_appsFirst(m) ==
    LET inband == FindAVPs(m, "Inband-Security-Id")
        adv == Advertised(m)
        app == ApplicationParse(adv)
        fail(avp, err, id) == [failedAVP |-> avp, err |-> err, id |-> id,
                               apps |-> <<>>, inband |-> inband,
                               osid |-> FindAVPs(m, "Origin-State-Id")]
    IN  IF FindAVPs(m, "Origin-Host") = <<>> THEN fail(<<>>, "MissingOriginHost", <<>>)
        ELSE IF FindAVPs(m, "Origin-Realm") = <<>>
             THEN fail(<<>>, "MissingOriginRealm", <<>>)
        ELSE IF app.err # Nil THEN fail(app.failedAVP, app.err, app.id)
        ELSE IF inband # <<>> /\ inband[1].val # 0
             THEN fail(<<inband[1]>>, "NoCommonSecurity", <<>>)
        ELSE [failedAVP |-> <<>>, err |-> Nil, id |-> <<>>,
              apps |-> [k \in 1..Len(adv) |-> adv[k].val],
              inband |-> inband,
              osid |-> FindAVPs(m, "Origin-State-Id")]

\* CER.Parse: returns the failed AVP (<<>> when none), the error, the ID an
\* application error carries and the accepted application ids.
Parse(m) ==
    LET inband == FindAVPs(m, "Inband-Security-Id")
        adv == Advertised(m)
        app == ApplicationParse(adv)
        fail(avp, err, id) == [failedAVP |-> avp, err |-> err, id |-> id,
                               apps |-> <<>>, inband |-> inband,
                               osid |-> FindAVPs(m, "Origin-State-Id")]
    IN  IF FindAVPs(m, "Origin-Host") = <<>> THEN fail(<<>>, "MissingOriginHost", <<>>)
        ELSE IF FindAVPs(m, "Origin-Realm") = <<>>
             THEN fail(<<>>, "MissingOriginRealm", <<>>)
        ELSE IF inband # <<>> /\ inband[1].val # 0
             THEN fail(<<inband[1]>>, "NoCommonSecurity", <<>>)
        ELSE IF app.err # Nil THEN fail(app.failedAVP, app.err, app.id)
        ELSE [failedAVP |-> <<>>, err |-> Nil, id |-> <<>>,
              apps |-> [k \in 1..Len(adv) |-> adv[k].val],
              inband |-> inband,
              osid |-> FindAVPs(m, "Origin-State-Id")]

\* ------------------------------------------------------------------ server
\* Mutant of FromContext: the retransmission check never finds the metadata.
FromContext_never(ctx) == FALSE

\* smpeer.FromContext
FromContext(ctx) == ctx # <<>>

\* smpeer.FromCER
FromCER(cer) == [apps |-> cer.apps]

\* StateMachine.Error: report to the error sink.
Error(st, m, err) ==
    [st EXCEPT !.errors = Append(@, [hbh |-> m.hbh, err |-> err])]

\* cer.go line 34: an error CEA is sent only for a specific failed AVP.
HasFailedAVP(failedAVP) == failedAVP # <<>>

\* Mutant of ErrorAnswer: every error answer says NoCommonApplication.
ErrorAnswer_alwaysApplication(m, cer, failedAVP) ==
    [Answer(m, "NoCommonApplication") EXCEPT !.flags = @ \cup {"E"}]

\* Mutant of ErrorAnswer: the E-bit is not set on the answer.
ErrorAnswer_noEbit(m, cer, failedAVP) ==
    IF <<failedAVP>> = cer.inband
    THEN Answer(m, "NoCommonSecurity")
    ELSE Answer(m, "NoCommonApplication")

\* cer.go lines 75-80: the result code and the E-bit of the error answer.
ErrorAnswer(m, cer, failedAVP) ==
    LET a == IF <<failedAVP>> = cer.inband
             THEN Answer(m, "NoCommonSecurity")
             ELSE Answer(m, "NoCommonApplication")
    IN [a EXCEPT !.flags = @ \cup {"E"}]

\* cer.go lines 89-91: the Failed-AVP grouped AVP.
FailedAVPGroup(failedAVP) == Group("Failed-AVP", <<failedAVP>>)

\* The AVPs every CEA starts with.
WithOrigin(a) ==
    AddAll(a, <<Leaf("Origin-Host", 0), Leaf("Origin-Realm", 0),
                Leaf("Host-IP-Address", 0), Leaf("Vendor-Id", 0),
                Leaf("Product-Name", 0)>>)

WithFirmware(a) ==
    IF FirmwareRevision # 0 THEN AddAVP(a, Leaf("Firmware-Revision", FirmwareRevision))
    ELSE a

errorCEA(c, m, cer, failedAVP, addrOK, ioOK) ==
    IF ~addrOK THEN [conn |-> c, err |-> "AddrError"]
    ELSE LET a0 == WithOrigin(ErrorAnswer(m, cer, failedAVP))
             a1 == AddAll(a0, cer.osid)
             a2 == AddAVP(a1, FailedAVPGroup(failedAVP))
         IN WriteTo(c, WithFirmware(a2), ioOK)

successCEA(c, m, cer, addrOK, ioOK) ==
    IF ~addrOK THEN [conn |-> c, err |-> "AddrError"]
    ELSE LET a0 == WithOrigin(Answer(m, "Success"))
             a1 == AddAll(a0, cer.osid)
             a2 == AddAll(a1, FindAVPs(m, "Acct-Application-Id"))
             a3 == AddAll(a2, FindAVPs(m, "Auth-Application-Id"))
             a4 == AddAll(a3, FindAVPs(m, "Vendor-Specific-Application-Id"))
         IN WriteTo(c, WithFirmware(a4), ioOK)

\* cer.go lines 59-62: non-blocking send on the handshake-notify channel.
Notify(st, listening) ==
    IF listening THEN [st EXCEPT !.notified = @ + 1] ELSE st

\* Mutant of handleCER: the connection is closed only after an error answer.
handleCER_closeInBranch(st, m, addrOK, ioOK, listening) ==
    IF FromContext(st.conn.ctx) THEN st
    ELSE
      LET cer == Parse(m) IN
      IF cer.err # Nil
      THEN IF HasFailedAVP(cer.failedAVP)
           THEN LET r == errorCEA(st.conn, m, cer, cer.failedAVP[1], addrOK, ioOK)
                    s1 == [st EXCEPT !.conn = r.conn]
                    s2 == IF r.err # Nil THEN Error(s1, m, r.err) ELSE s1
                IN [s2 EXCEPT !.conn = Close(s2.conn)]
           ELSE st
      ELSE LET r == successCEA(st.conn, m, cer, addrOK, ioOK)
               s1 == [st EXCEPT !.conn = r.conn]
           IN IF r.err # Nil THEN Error(s1, m, r.err)
              ELSE Notify([s1 EXCEPT !.conn.ctx = <<FromCER(cer)>>,
                                     !.ctxWrites = @ + 1], listening)

\* Mutant of handleCER: a CER on a connection that passed the handshake is
\* handled like the first.
handleCER_again(st, m, addrOK, ioOK, listening) ==
    LET cer == Parse(m) IN
    IF cer.err # Nil
    THEN LET r == IF HasFailedAVP(cer.failedAVP)
                  THEN errorCEA(st.conn, m, cer, cer.failedAVP[1], addrOK, ioOK)
                  ELSE [conn |-> st.conn, err |-> Nil]
             s1 == [st EXCEPT !.conn = r.conn]
             s2 == IF HasFailedAVP(cer.failedAVP) /\ r.err # Nil
                   THEN Error(s1, m, r.err) ELSE s1
         IN [s2 EXCEPT !.conn = Close(s2.conn)]
    ELSE LET r == successCEA(st.conn, m, cer, addrOK, ioOK)
             s1 == [st EXCEPT !.conn = r.conn]
         IN IF r.err # Nil THEN Error(s1, m, r.err)
            ELSE Notify([s1 EXCEPT !.conn.ctx = <<FromCER(cer)>>,
                                   !.ctxWrites = @ + 1], listening)

\* handleCER on the server's state st: the connection, the error sink, the
\* number of handshake notifications delivered, the number of context writes.
handleCER(st, m, addrOK, ioOK, listening) ==
    IF FromContext(st.conn.ctx) THEN st
    ELSE
      LET cer == Parse(m) IN
      IF cer.err # Nil
      THEN LET r == IF HasFailedAVP(cer.failedAVP)
                    THEN errorCEA(st.conn, m, cer, cer.failedAVP[1], addrOK, ioOK)
                    ELSE [conn |-> st.conn, err |-> Nil]
               s1 == [st EXCEPT !.conn = r.conn]
               s2 == IF HasFailedAVP(cer.failedAVP) /\ r.err # Nil
                     THEN Error(s1, m, r.err) ELSE s1
           IN [s2 EXCEPT !.conn = Close(s2.conn)]
      ELSE LET r == successCEA(st.conn, m, cer, addrOK, ioOK)
               s1 == [st EXCEPT !.conn = r.conn]
           IN IF r.err # Nil THEN Error(s1, m, r.err)
              ELSE Notify([s1 EXCEPT !.conn.ctx = <<FromCER(cer)>>,
                                     !.ctxWrites = @ + 1], listening)

\* ------------------------------------------------------------------ server inputs
OneOrNone(a) == {<<>>, <<a>>}

BareApps ==
    {Leaf(code, id) : code \in {"Acct-Application-Id", "Auth-Application-Id"},
                      id \in AppIDs}

AppAVPs == BareApps \cup {Group("Vendor-Specific-Application-Id", <<a>>) : a \in BareApps}

\* A CER advertises no application or one, as the CERs of the parser's tests.
CERApps == {<<>>} \cup {<<a>> : a \in AppAVPs}

\* The CERs a peer may send.
CERs ==
    {[cmd |-> "CER", flags |-> {"R"}, hbh |-> 1, ete |-> 1, rc |-> Nil,
      avps |-> oh \o or \o os \o ib \o apps] :
        oh \in OneOrNone(Leaf("Origin-Host", 0)),
        or \in OneOrNone(Leaf("Origin-Realm", 0)),
        os \in OneOrNone(Leaf("Origin-State-Id", 1)),
        ib \in {<<>>, <<Leaf("Inband-Security-Id", 0)>>, <<Leaf("Inband-Security-Id", 1)>>},
        apps \in CERApps}

\* ------------------------------------------------------------------ state
VARIABLES srv, lastCER, cfg, hs, wd, cconn, sock, ids, hist, par, cod, duo

srvVars == <<srv, lastCER>>

cliVars == <<cfg, hs, wd, cconn, sock, ids, hist>>

\* par: a CER handed to the parser and the parser's result; cod: an AVP on its
\* way through the codec; duo: two handshakes on one state machine.  All
\* three are idle while the single client and the server run.
pureVars == <<par, cod, duo>>

vars == <<srv, lastCER, cfg, hs, wd, cconn, sock, ids, hist, par, cod, duo>>

ParIdle == par = [m |-> <<>>, res |-> <<>>]

CodAt(pc, args, buf) ==
    [pc |-> pc, args |-> args, a |-> <<>>, out |-> <<>>, buf |-> buf, dec |-> <<>>]

CodIdle == cod = CodAt("idle", <<>>, <<>>)

DuoIdle == duo = <<>>

\* lastCER: history of the handler's last run (the CER, the parse result, the
\* connection before it and whether its answer was written), <<>> before the
\* first.
InitServer ==
    /\ srv = [conn |-> NewConn, errors |-> <<>>, notified |-> 0,
              ctxWrites |-> 0, recv |-> 0]
    /\ lastCER = <<>>

\* The handler reaches the network (local address, write, notification) only
\* for a first CER that parses or that fails on a specific AVP.
ReachesIO(st, m) ==
    /\ ~FromContext(st.conn.ctx)
    /\ (Parse(m).err = Nil \/ Parse(m).failedAVP # <<>>)

IOOutcomes(st, m) ==
    IF ReachesIO(st, m)
    THEN [addrOK : BOOLEAN, ioOK : BOOLEAN, listening : BOOLEAN]
    ELSE {[addrOK |-> TRUE, ioOK |-> TRUE, listening |-> TRUE]}

\* The read loop dispatches one received CER to handleCER.
ServerRecvCER ==
    /\ ~srv.conn.closed
    /\ srv.recv < MaxCERs
    /\ \E m0 \in CERs :
         LET m == [m0 EXCEPT !.hbh = srv.recv + 1, !.ete = srv.recv + 1]
         IN \E io \in IOOutcomes(srv, m) :
              /\ srv' = [handleCER(srv, m, io.addrOK, io.ioOK, io.listening)
                           EXCEPT !.recv = @ + 1]
              /\ lastCER' = <<[hbh |-> m.hbh, cer |-> Parse(m),
                               before |-> srv.conn, io |-> io]>>
    /\ UNCHANGED <<cliVars, pureVars>>

\* ------------------------------------------------------------------ client
\* diam.NewRequest: the R flag and fresh Hop-by-Hop / End-to-End identifiers
\* taken from the process-wide counters.
NewRequest(cmd, id) ==
    [cmd |-> cmd, flags |-> {"R"}, hbh |-> id, ete |-> id, rc |-> Nil, avps |-> <<>>]

\* Client.makeCER
makeCER(apps, id) ==
    LET m0 == AddAll(NewRequest("CER", id),
                     <<Leaf("Origin-Host", 0), Leaf("Origin-Realm", 0),
                       Leaf("Host-IP-Address", 0), Leaf("Vendor-Id", 0),
                       Leaf("Product-Name", 0)>>)
        m1 == IF OriginStateID # 0
              THEN AddAVP(m0, Leaf("Origin-State-Id", OriginStateID)) ELSE m0
        m2 == AddAll(m1, FindAVPs([avps |-> apps], "Auth-Application-Id"))
        m3 == AddAVP(m2, Leaf("Inband-Security-Id", 0))
        m4 == AddAll(m3, FindAVPs([avps |-> apps], "Acct-Application-Id"))
        m5 == AddAll(m4, FindAVPs([avps |-> apps], "Vendor-Specific-Application-Id"))
    IN WithFirmware(m5)

\* Client.makeDWR
makeDWR(id) ==
    AddAll(NewRequest("DWR", id),
           <<Leaf("Origin-Host", 0), Leaf("Origin-Realm", 0),
             Leaf("Origin-State-Id", OriginStateID)>>)

\* Client.validate: a nil Handler, or applications the dictionary rejects.
validate(handlerSet, apps) ==
    IF ~handlerSet THEN "ErrMissingStateMachine"
    ELSE ApplicationParse(Advertised([avps |-> apps])).err

\* Mutant of handshakeAttempts: the loop runs MaxRetransmits times.
handshakeAttempts_offByOne(maxRetransmits) == maxRetransmits

\* The bound of handshake's send loop: i < int(cli.MaxRetransmits) + 1.
handshakeAttempts(maxRetransmits) == maxRetransmits + 1

\* Mutant of dwrAttempts: the loop runs one pass more.
dwrAttempts_oneMore(maxRetransmits) == maxRetransmits + 2

\* The bound of dwr's send loop: i < int(cli.MaxRetransmits) + 1.
dwrAttempts(maxRetransmits) == maxRetransmits + 1

\* Mutant of Resend: every send builds a new request.
Resend_fresh(m, i) == [m EXCEPT !.hbh = @ + i, !.ete = @ + i]

\* The message written by the i-th pass of a send loop: m.WriteTo(c) writes
\* the request built before the loop, unchanged.
Resend(m, i) == m

\* Mutant of SpawnWatchdog: the watchdog is started on every success.
SpawnWatchdog_always(enableWatchdog) == TRUE

\* handshake line 138: the watchdog goroutine is started iff EnableWatchdog.
SpawnWatchdog(enableWatchdog) == enableWatchdog

\* handleCEA's verdict on a received CEA: a parse error, a Result-Code other
\* than success, or nil.
ParseCEA(cea) ==
    IF ~cea.wellFormed THEN "ParseError"
    ELSE IF cea.rc # "Success" THEN "FailedResultCode"
    ELSE Nil

\* The CEAs a peer may answer with.
CEAs == [wellFormed : BOOLEAN, rc : {"Success", "NoCommonApplication"}]

\* The application AVPs a client may be configured with.
ClientApps ==
    {<<>>,
     <<Leaf("Acct-Application-Id", 1001)>>,
     <<Group("Vendor-Specific-Application-Id", <<Leaf("Auth-Application-Id", 1002)>>)>>,
     <<Leaf("Acct-Application-Id", 1000)>>}

\* Where Dial fails before the handshake loop, if it does.
DialFaults == {"none", "handler", "netdial", "newconn", "localaddr"}

\* cfg: the Client's fields. hs: the goroutine running Dial/handshake (pc, loop
\* counter i, the CER <<m>>, the value returned). wd: the watchdog goroutine
\* (pc, loop counter i of dwr, the DWR <<m>>). cconn: the connection. sock: the TCP
\* socket ("none" before net.Dial, then "open" or "closed"). ids: the next
\* request identifier. hist: history (per write the request it belongs to,
\* timer expiries, CEA verdicts delivered, finished watchdog rounds, who closed).
ClientStart(c) ==
    /\ cfg = c
    /\ hs = [pc |-> "init", i |-> 0, m |-> <<>>, conn |-> FALSE, err |-> Nil]
    /\ wd = [pc |-> "off", i |-> 0, m |-> <<>>, round |-> 0, sends |-> 0, timeouts |-> 0]
    /\ cconn = NewConn
    /\ sock = "none"
    /\ ids = 1
    /\ hist = [tags |-> <<>>, hsTimeouts |-> 0, cea |-> <<>>, rounds |-> <<>>,
               closedBy |-> <<>>]

\* A Client as declared: retransmission and watchdog disabled.
DefaultClient == [MaxRetransmits |-> 0, EnableWatchdog |-> FALSE]

InitClient ==
    \E c \in [MaxRetransmits : 0..MaxN, EnableWatchdog : BOOLEAN] : ClientStart(c)

\* handshake returns (nil, err).
Fail(err) == [hs EXCEPT !.pc = "done", !.conn = FALSE, !.err = err]

\* The history hi after `who` (in watchdog round `round`, else 0) called Close.
Closed(hi, who, round) ==
    [hi EXCEPT !.closedBy = IF cconn.closed THEN @
                            ELSE Append(@, [who |-> who, round |-> round])]

\* c.Close() called by `who`, with history hi: connection and socket closed.
CloseBy(who, hi) ==
    /\ cconn' = Close(cconn)
    /\ sock' = "closed"
    /\ hist' = Closed(hi, who, 0)

\* One pass of handshake's loop body up to the select, from goroutine state h
\* and history hi: write the CER; a write error returns it.
SendCER(h, hi, ioOK) ==
    LET r == WriteTo(cconn, Resend(h.m[1], h.i), ioOK)
    IN /\ cconn' = r.conn
       /\ IF r.err # Nil
          THEN /\ hs' = [h EXCEPT !.pc = "done", !.conn = FALSE, !.err = r.err]
               /\ hist' = hi
          ELSE /\ hs' = [h EXCEPT !.pc = "select"]
               /\ hist' = [hi EXCEPT !.tags = Append(@, 0)]

\* Client.Dial: validate, diam.Dial (net.Dial, newConn, go serve), then
\* handshake up to its first select.
Dial ==
    /\ hs.pc = "init"
    /\ \E fault \in DialFaults, apps \in ClientApps, ioOK \in BOOLEAN :
         LET v == validate(fault # "handler", apps)
         IN IF v # Nil
            THEN hs' = Fail(v) /\ UNCHANGED <<cconn, sock, ids, hist>>
            ELSE IF fault = "netdial"
            THEN hs' = Fail("DialError") /\ UNCHANGED <<cconn, sock, ids, hist>>
            ELSE IF fault = "newconn"
            THEN hs' = Fail("NewConnError") /\ sock' = "open"
                 /\ UNCHANGED <<cconn, ids, hist>>
            ELSE IF fault = "localaddr"
            THEN hs' = Fail("AddrError") /\ sock' = "open"
                 /\ UNCHANGED <<cconn, ids, hist>>
            ELSE LET h == [hs EXCEPT !.m = <<makeCER(apps, ids)>>]
                 IN /\ ids' = ids + 1
                    /\ IF 0 < handshakeAttempts(cfg.MaxRetransmits)
                       THEN SendCER(h, hist, ioOK) /\ sock' = "open"
                       ELSE /\ CloseBy("handshake", hist)
                            /\ hs' = [h EXCEPT !.pc = "done", !.conn = FALSE,
                                                !.err = "ErrHandshakeTimeout"]
    /\ UNCHANGED <<cfg, wd>>
    /\ UNCHANGED <<srvVars, pureVars>>

\* The select in handshake takes `case err := <-errc`: handleCEA has judged a
\* CEA read from the connection.
HsRecvCEA ==
    /\ hs.pc = "select"
    /\ ~cconn.closed
    /\ \E cea \in CEAs :
         LET err == ParseCEA(cea)
         IN /\ hist' = [hist EXCEPT !.cea = Append(@, err)]
            /\ IF err # Nil
               THEN /\ hs' = Fail(err)
                    /\ UNCHANGED <<wd, cconn>>
               ELSE /\ hs' = [hs EXCEPT !.pc = "done", !.conn = TRUE, !.err = Nil]
                    /\ cconn' = [cconn EXCEPT !.ctx = <<[apps |-> <<>>]>>]
                    /\ wd' = IF SpawnWatchdog(cfg.EnableWatchdog)
                             THEN [wd EXCEPT !.pc = "idle"] ELSE wd
    /\ UNCHANGED <<cfg, sock, ids>>
    /\ UNCHANGED <<srvVars, pureVars>>

\* The select in handshake takes `case <-time.After(RetransmitInterval)`: the
\* loop goes on with the next send, or ends with Close and ErrHandshakeTimeout.
HsTimeout ==
    /\ hs.pc = "select"
    /\ LET h == [hs EXCEPT !.i = @ + 1]
           hi == [hist EXCEPT !.hsTimeouts = @ + 1]
       IN IF h.i < handshakeAttempts(cfg.MaxRetransmits)
          THEN (\E ioOK \in BOOLEAN : SendCER(h, hi, ioOK)) /\ sock' = sock
          ELSE /\ CloseBy("handshake", hi)
               /\ hs' = [h EXCEPT !.pc = "done", !.conn = FALSE,
                                   !.err = "ErrHandshakeTimeout"]
    /\ UNCHANGED <<cfg, wd, ids>>
    /\ UNCHANGED <<srvVars, pureVars>>

\* The round of dwr ends: back in watchdog's select.
EndRound(w, hi, how) ==
    /\ wd' = [w EXCEPT !.pc = "idle"]
    /\ hist' = [hi EXCEPT !.rounds = Append(@, [sends |-> w.sends,
                                                 timeouts |-> w.timeouts,
                                                 end |-> how])]

\* One pass of dwr's loop body up to the select, from goroutine state w:
\* write the DWR; a write error ends the round.
SendDWR(w, ioOK) ==
    LET r == WriteTo(cconn, Resend(w.m[1], w.i), ioOK)
    IN /\ cconn' = r.conn
       /\ IF r.err # Nil
          THEN EndRound(w, hist, "writeerr")
          ELSE /\ wd' = [w EXCEPT !.pc = "select", !.sends = @ + 1]
               /\ hist' = [hist EXCEPT !.tags = Append(@, w.round)]

\* The select in watchdog takes `case <-time.After(WatchdogInterval)`: dwr
\* builds a DWR and runs up to its first select.
WdTick ==
    /\ wd.pc = "idle"
    /\ wd.round < MaxRounds
    /\ ids' = ids + 1
    /\ LET w == [wd EXCEPT !.round = @ + 1, !.i = 0, !.sends = 0, !.timeouts = 0,
                           !.m = <<makeDWR(ids)>>]
       IN IF 0 < dwrAttempts(cfg.MaxRetransmits)
          THEN (\E ioOK \in BOOLEAN : SendDWR(w, ioOK)) /\ sock' = sock
          ELSE /\ cconn' = Close(cconn)
               /\ sock' = "closed"
               /\ EndRound(w, Closed(hist, "watchdog", w.round), "failed")
    /\ UNCHANGED <<cfg, hs>>
    /\ UNCHANGED <<srvVars, pureVars>>

\* Mutant of WdDisconnect: the watchdog's select has no disconnect case.
WdDisconnect_ignored ==
    /\ wd.pc = "idle"
    /\ cconn.closed
    /\ UNCHANGED vars

\* The select in watchdog takes `case <-disconnect`: the goroutine returns.
WdDisconnect ==
    /\ wd.pc = "idle"
    /\ cconn.closed
    /\ wd' = [wd EXCEPT !.pc = "exit"]
    /\ UNCHANGED <<cfg, hs, cconn, sock, ids, hist>>
    /\ UNCHANGED <<srvVars, pureVars>>

\* The select in dwr takes `case <-dwac`: handleDWA has seen a DWA.
WdRecvDWA ==
    /\ wd.pc = "select"
    /\ ~cconn.closed
    /\ EndRound(wd, hist, "dwa")
    /\ UNCHANGED <<cfg, hs, cconn, sock, ids>>
    /\ UNCHANGED <<srvVars, pureVars>>

\* The select in dwr takes `case <-time.After(RetransmitInterval)`: the loop
\* goes on with the next send, or ends and the connection is closed.
WdTimeout ==
    /\ wd.pc = "select"
    /\ LET w == [wd EXCEPT !.i = @ + 1, !.timeouts = @ + 1]
       IN IF w.i < dwrAttempts(cfg.MaxRetransmits)
          THEN (\E ioOK \in BOOLEAN : SendDWR(w, ioOK)) /\ sock' = sock
          ELSE /\ cconn' = Close(cconn)
               /\ sock' = "closed"
               /\ EndRound(w, Closed(hist, "watchdog", w.round), "failed")
    /\ UNCHANGED <<cfg, hs, ids>>
    /\ UNCHANGED <<srvVars, pureVars>>

\* The peer closes the connection, or the read loop hits an I/O error: the
\* connection is marked closed and close-notify fires.
PeerClose ==
    /\ hs.pc = "select" \/ (hs.pc = "done" /\ hs.conn)
    /\ ~cconn.closed
    /\ CloseBy("peer", hist)
    /\ UNCHANGED <<cfg, hs, wd, ids>>
    /\ UNCHANGED <<srvVars, pureVars>>

Init == InitServer /\ InitClient /\ ParIdle /\ CodIdle /\ DuoIdle

NextServer == ServerRecvCER

\* The server alone: the client stays as declared.
InitServerOnly ==
    InitServer /\ ClientStart(DefaultClient) /\ ParIdle /\ CodIdle /\ DuoIdle

SpecServer == InitServerOnly /\ [][NextServer]_vars

Next ==
    \/ Dial
    \/ HsRecvCEA
    \/ HsTimeout
    \/ WdTick
    \/ WdDisconnect
    \/ WdRecvDWA
    \/ WdTimeout
    \/ PeerClose

Spec == Init /\ [][Next]_vars

\* The goroutines are scheduled and the timers expire: a select whose closed
\* disconnect channel stays ready is left through it, and the wait for a DWA
\* ends at the latest when its timer fires.
FairSpec == Init /\ [][Next]_vars /\ WF_vars(WdDisconnect) /\ WF_vars(WdTimeout)

\* ------------------------------------------------------------------ server claims
\* What the last run of handleCER added to the connection's record.
NewEvents ==
    SubSeq(srv.conn.events, Len(lastCER[1].before.events) + 1, Len(srv.conn.events))

\* The last run of handleCER was on a connection that had not passed the handshake.
FirstCER == lastCER # <<>> /\ lastCER[1].before.ctx = <<>>

FailedOnAVP == FirstCER /\ lastCER[1].cer.err # Nil /\ lastCER[1].cer.failedAVP # <<>>

FailedNoAVP == FirstCER /\ lastCER[1].cer.err # Nil /\ lastCER[1].cer.failedAVP = <<>>

Parsed == FirstCER /\ lastCER[1].cer.err = Nil

AnswerWritten == lastCER[1].io.addrOK /\ lastCER[1].io.ioOK

IsErrorCEA(a, failedAVP) ==
    /\ a.cmd = "CEA"
    /\ "E" \in a.flags
    /\ "R" \notin a.flags
    /\ a.hbh = lastCER[1].hbh
    /\ FindAVPs(a, "Failed-AVP") = <<Group("Failed-AVP", <<failedAVP>>)>>

\* C4: when CER parsing fails on a specific AVP, handleCER writes an error CEA
\* (E-bit set, Failed-AVP holding exactly that AVP) and then closes the
\* connection; if the answer cannot be written the connection is closed all
\* the same; in neither case is peer metadata attached.
C4_ErrorCEAThenClose ==
    FailedOnAVP =>
        /\ srv.conn.closed
        /\ srv.conn.ctx = <<>>
        /\ srv.ctxWrites = 0
        /\ IF AnswerWritten
           THEN /\ Len(NewEvents) = 2
                /\ NewEvents[1].ev = "write"
                /\ IsErrorCEA(NewEvents[1].msg, lastCER[1].cer.failedAVP[1])
                /\ NewEvents[2].ev = "close"
           ELSE /\ Len(NewEvents) = 1
                /\ NewEvents[1].ev = "close"

C4_Witness ==
    /\ FailedOnAVP
    /\ AnswerWritten
    /\ srv.conn.closed
    /\ Len(Written(srv.conn)) = 1

\* C5: when CER parsing fails without a failed AVP (missing Origin-Host,
\* Origin-Realm or application), handleCER closes the connection and writes
\* no answer on it.
C5_CloseWithoutAnswer ==
    FailedNoAVP =>
        /\ srv.conn.closed
        /\ Len(NewEvents) = 1
        /\ NewEvents[1].ev = "close"
        /\ Written(srv.conn) = Written(lastCER[1].before)

C5_Witness ==
    /\ FailedNoAVP
    /\ lastCER[1].cer.err = "MissingOriginRealm"
    /\ srv.conn.closed
    /\ srv.recv = 2

\* C6: over any sequence of CERs on a connection, peer metadata is written to
\* the context at most once, and only by a run of handleCER whose CER parsed
\* and whose success CEA was written; when the success CEA cannot be written
\* the error is reported to the error sink and no metadata is attached.
C6_PeerMetaOnce ==
    /\ srv.ctxWrites <= 1
    /\ (srv.conn.ctx # <<>>) = (srv.ctxWrites = 1)
    /\ srv.conn.ctx # <<>> =>
          LET ev == srv.conn.events
          IN /\ ev # <<>>
             /\ ev[Len(ev)].ev = "write"
             /\ ev[Len(ev)].msg.cmd = "CEA"
             /\ ev[Len(ev)].msg.rc = "Success"
             /\ "E" \notin ev[Len(ev)].msg.flags
    /\ FirstCER /\ ~Parsed => srv.conn.ctx = <<>>
    /\ Parsed /\ AnswerWritten =>
          /\ srv.conn.ctx = <<FromCER(lastCER[1].cer)>>
          /\ Len(NewEvents) = 1
          /\ NewEvents[1].msg.hbh = lastCER[1].hbh
    /\ Parsed /\ ~AnswerWritten =>
          /\ srv.conn.ctx = <<>>
          /\ NewEvents = <<>>
          /\ srv.errors # <<>>
          /\ srv.errors[Len(srv.errors)].hbh = lastCER[1].hbh
          /\ srv.errors[Len(srv.errors)].err \in {"WriteError", "AddrError"}

\* A second CER arrived after the handshake passed, and one whose success
\* answer could not be written came before.
C6_Witness ==
    /\ srv.recv = 2
    /\ srv.conn.ctx # <<>>
    /\ srv.ctxWrites = 1
    /\ lastCER # <<>>
    /\ lastCER[1].before.ctx # <<>>

\* ------------------------------------------------------------------ client claims
\* The requests the client has written, in order; hist.tags[k] names the
\* request object write k belongs to (0: the CER, r: the DWR of round r).
Sent == Written(cconn)

SentOf(tag) == {k \in 1..Len(Sent) : hist.tags[k] = tag}

N == cfg.MaxRetransmits

\* The handshake loop was entered (the CER was built).
InHandshake == hs.m # <<>>

\* C1: with no CEA received, handshake writes the CER MaxRetransmits+1 times,
\* one send per elapsed RetransmitInterval, then closes the connection and
\* returns ErrHandshakeTimeout; ErrHandshakeTimeout is never returned before
\* all MaxRetransmits+1 sends were made. (A failed write returns the write
\* error at once.)
C1_HandshakeTimeout ==
    /\ hs.err = "ErrHandshakeTimeout" =>
          /\ hs.pc = "done"
          /\ ~hs.conn
          /\ hist.cea = <<>>
          /\ Cardinality(SentOf(0)) = N + 1
          /\ hist.hsTimeouts = N + 1
          /\ cconn.closed
          /\ sock = "closed"
          /\ Len(cconn.events) = N + 2
          /\ \A k \in 1..(N + 1) :
                cconn.events[k].ev = "write" /\ cconn.events[k].msg.cmd = "CER"
          /\ cconn.events[N + 2].ev = "close"
    /\ (hs.pc = "done" /\ InHandshake /\ hist.cea = <<>> /\ hs.err # "WriteError") =>
          hs.err = "ErrHandshakeTimeout"
    /\ hs.pc = "select" =>
          /\ Cardinality(SentOf(0)) = hist.hsTimeouts + 1
          /\ Cardinality(SentOf(0)) <= N + 1

C1_Witness ==
    /\ hs.pc = "done"
    /\ hs.err = "ErrHandshakeTimeout"
    /\ N = 2
    /\ Cardinality(SentOf(0)) = 3
    /\ hist.closedBy = <<[who |-> "handshake", round |-> 0]>>

\* C2: every retransmission of a request (the CER in handshake, the DWR
\* within one round of dwr) carries the Hop-by-Hop and End-to-End identifiers
\* of the first send of that request.
C2_SameIdentifiers ==
    /\ Len(hist.tags) = Len(Sent)
    /\ \A k, l \in 1..Len(Sent) :
          hist.tags[k] = hist.tags[l] =>
              /\ Sent[k].cmd = Sent[l].cmd
              /\ Sent[k].hbh = Sent[l].hbh
              /\ Sent[k].ete = Sent[l].ete

C2_Witness ==
    /\ Cardinality(SentOf(0)) >= 2
    /\ Cardinality(SentOf(1)) >= 2
    /\ \A k \in SentOf(1) : Sent[k].cmd = "DWR"

\* C3: for every request the client sends more than once, the T (retransmit)
\* flag is clear on the first send and set on every later send.
C3_TBitOnRetransmit ==
    \A k \in 1..Len(Sent) :
        LET first == \A l \in 1..(k - 1) : hist.tags[l] # hist.tags[k]
        IN ("T" \in Sent[k].flags) = ~first

\* C7: when the CEA received fails validation, the connection is closed, Dial
\* returns the error and no connection, and the watchdog is not started.
C7_BadCEACloses ==
    (hs.pc = "done" /\ hist.cea # <<>> /\ hist.cea[1] # Nil) =>
        /\ hs.err = hist.cea[1]
        /\ ~hs.conn
        /\ wd.pc = "off"
        /\ cconn.closed

\* C8: whenever Dial returns an error after the TCP socket was opened, the
\* socket has been closed; a socket is left open only when the connection is
\* returned to the caller.
C8_SocketReleased ==
    (hs.pc = "done" /\ sock = "open") => (hs.conn /\ hs.err = Nil)

\* The watchdog round r has ended.
RoundOK(r) ==
    LET rd == hist.rounds[r]
    IN /\ Cardinality(SentOf(r)) = rd.sends
       /\ rd.sends <= N + 1
       /\ rd.end = "failed" =>
             /\ rd.sends = N + 1
             /\ rd.timeouts = N + 1
             /\ cconn.closed
       /\ rd.end = "dwa" =>
             /\ rd.sends = rd.timeouts + 1
             /\ \A k \in 1..Len(hist.closedBy) : hist.closedBy[k].round # r
       /\ rd.end = "writeerr" => rd.sends = rd.timeouts

\* C9: a watchdog round in which no DWA is received writes the DWR
\* MaxRetransmits+1 times, waiting RetransmitInterval after each, and then
\* closes the connection; a round in which a DWA is received sends no further
\* DWR and does not close the connection. (A failed write ends the round.)
C9_WatchdogRound ==
    /\ \A r \in 1..Len(hist.rounds) : RoundOK(r)
    /\ wd.pc = "select" =>
          /\ wd.sends = wd.timeouts + 1
          /\ wd.sends <= N + 1
          /\ Cardinality(SentOf(wd.round)) = wd.sends

C9_Witness ==
    /\ N = 2
    /\ Len(hist.rounds) = 2
    /\ hist.rounds[1].end = "dwa"
    /\ hist.rounds[1].sends = 2
    /\ hist.rounds[2].end = "failed"
    /\ hist.rounds[2].sends = 3
    /\ hist.closedBy = <<[who |-> "watchdog", round |-> 2]>>

\* C10: no DWR is sent before a successful CEA was received on the
\* connection, and none when EnableWatchdog is false: the watchdog is started
\* only on handshake's success path and only if EnableWatchdog is set.
C10_WatchdogOnlyAfterSuccess ==
    /\ wd.pc # "off" =>
          /\ cfg.EnableWatchdog
          /\ hs.pc = "done"
          /\ hs.conn
          /\ hist.cea = <<Nil>>
    /\ (\E k \in 1..Len(Sent) : Sent[k].cmd = "DWR") => wd.pc # "off"
    /\ \A k, l \in 1..Len(Sent) :
          (Sent[k].cmd = "DWR" /\ Sent[l].cmd = "CER") => l < k

C10_Witness ==
    /\ \E k \in 1..Len(Sent) : Sent[k].cmd = "DWR"
    /\ cfg.EnableWatchdog
    /\ hist.cea = <<Nil>>


\* ------------------------------------------------------------------ AVP codec
\* An AVP is a record [Code, Flags, Length, VendorID, Data]; Flags is the flag
\* byte, Data is <<>> (nil) or <<payload bytes>> (an OctetString).  A byte
\* slice is a record [mem, len]: its backing array from the slice's start (so
\* its capacity is Len(mem)) and its length.
Vbit == 128

HasVbit(flags) == (flags \div Vbit) % 2 = 1

\* binary.BigEndian.PutUint32 / Uint32, uint32to24 / uint24to32
U32Bytes(n) ==
    <<(n \div 16777216) % 256, (n \div 65536) % 256, (n \div 256) % 256, n % 256>>

BytesU32(b) == b[1] * 16777216 + b[2] * 65536 + b[3] * 256 + b[4]

U24Bytes(n) == <<(n \div 65536) % 256, (n \div 256) % 256, n % 256>>

BytesU24(b) == b[1] * 65536 + b[2] * 256 + b[3]

\* s[lo:hi] of a Go slice, as a sequence.
Slice(mem, lo, hi) == [k \in 1..(hi - lo) |-> mem[lo + k]]

\* datatype.Type of an OctetString: Len, Padding, Serialize; datatype.Decode.
DataLen(d) == Len(d[1])

Padding(d) == (4 - (Len(d[1]) % 4)) % 4

DataSerialize(d) == d[1]

DataDecode(payload) == <<payload>>

\* AVP.headerLen
headerLen(a) == IF HasVbit(a.Flags) THEN 12 ELSE 8

\* NewAVP: the length is taken (line 34) before the V-bit is added (35-37);
\* a nil data panics on a.Data.Len().
NewAVP(code, flags, vendor, data) ==
    IF data = <<>> THEN [panic |-> TRUE, a |-> <<>>]
    ELSE LET a0 == [Code |-> code, Flags |-> flags, Length |-> 0,
                    VendorID |-> vendor, Data |-> data]
             a1 == [a0 EXCEPT !.Length = headerLen(a0) + DataLen(a0.Data)]
             a2 == IF vendor > 0 /\ ~HasVbit(flags)
                   THEN [a1 EXCEPT !.Flags = flags + Vbit] ELSE a1
         IN [panic |-> FALSE, a |-> <<a2>>]

\* AVP.Len: the stored length, padded.
AVPLen(a) == ((a.Length + 3) \div 4) * 4

CodecResult(res, err, bytes, a) == [res |-> res, err |-> err, bytes |-> bytes, a |-> a]

Panic == CodecResult("panic", Nil, <<>>, <<>>)

\* AVP.SerializeTo on a zeroed buffer of n bytes: every slice expression and
\* index of lines 138-151 is in range, or the call panics.
SerializeTo(n, a) ==
    LET hl == headerLen(a)
        payload == DataSerialize(a.Data)
        header == U32Bytes(a.Code) \o <<a.Flags>> \o U24Bytes(hl + DataLen(a.Data))
                  \o (IF HasVbit(a.Flags) THEN U32Bytes(a.VendorID) ELSE <<>>)
        rest == n - (hl + Len(payload))
    IN  IF n < 8 THEN Panic                                  \* b[0:4], b[4], b[5:8]
        ELSE IF HasVbit(a.Flags) /\ n < 12 THEN Panic        \* b[8:12]
        ELSE IF n < hl THEN Panic                            \* b[hl:]
        ELSE IF rest < 0 THEN Panic                          \* b[hl+len(payload):]
        ELSE IF Padding(a.Data) > rest THEN Panic            \* b[i] = 0
        ELSE CodecResult("ok", Nil,
                         header \o payload \o [k \in 1..rest |-> 0], <<>>)

\* AVP.Serialize
Serialize(a) ==
    IF a.Data = <<>> THEN CodecResult("error", "NilData", <<>>, <<>>)
    ELSE SerializeTo(AVPLen(a), a)

\* The dictionary of the codec: the AVP codes it knows, all OctetStrings.
DictAVPs == {1, 263}

\* AVP.DecodeFromBytes on a fresh AVP (DecodeAVP).
DecodeFromBytes(data) ==
    LET dl == data.len
        cap == Len(data.mem)
        code == BytesU32(Slice(data.mem, 0, 4))
        flags == data.mem[5]
        length == BytesU24(Slice(data.mem, 5, 8))
        vbit == HasVbit(flags)
        hdrLength == IF vbit THEN 12 ELSE 8
        vendor == IF vbit THEN BytesU32(Slice(data.mem, 8, 12)) ELSE 0
        payload == Slice(data.mem, hdrLength, length)
    IN  IF dl < 8 THEN CodecResult("error", "ShortHeader", <<>>, <<>>)      \* 55-57
        ELSE IF dl < length THEN CodecResult("error", "Truncated", <<>>, <<>>) \* 62-66
        ELSE IF vbit /\ cap < 12 THEN Panic                  \* data[8:12] of data[:length]
        ELSE IF length < hdrLength THEN Panic                \* data[12:], data[8:]
        ELSE IF code \notin DictAVPs
             THEN CodecResult("error", "UnknownAVP", <<>>, <<>>)            \* 86-89
        ELSE CodecResult("ok", Nil, <<>>,
                         <<[Code |-> code, Flags |-> flags, Length |-> length,
                            VendorID |-> vendor, Data |-> DataDecode(payload)]>>)

\* ------------------------------------------------------------------ codec runs
RECURSIVE ByteSeqs(_)
ByteSeqs(n) ==
    IF n = 0 THEN {<<>>}
    ELSE ByteSeqs(n - 1) \cup {Append(q, b) : q \in {x \in ByteSeqs(n - 1) : Len(x) = n - 1},
                                              b \in {0, 171}}

\* The arguments of NewAVP: a known or unknown code, the M and V flags, a
\* zero or non-zero vendor, a nil or OctetString payload.
NewAVPArgs ==
    [code : {1, 263, 999}, flags : {0, 64, Vbit, Vbit + 64}, vendor : {0, 10415},
     data : {<<>>} \cup {<<q>> : q \in ByteSeqs(MaxData)}]

\* Raw buffers handed to the decoder: a header with any small length field, a
\* tail of up to MaxRest bytes, and a slice length up to the whole buffer.
RawBuffers ==
    UNION {{[mem |-> U32Bytes(code) \o <<flags>> \o U24Bytes(declared)
                     \o [i \in 1..k |-> i],
             len |-> n] :
               code \in {1, 999}, flags \in {0, Vbit}, declared \in 0..MaxDeclared,
               n \in 0..(8 + k)} : k \in 0..MaxRest}

InitCodec ==
    /\ InitServer /\ ClientStart(DefaultClient) /\ ParIdle /\ DuoIdle
    /\ \/ \E args \in NewAVPArgs : cod = CodAt("args", <<args>>, <<>>)
       \/ \E b \in RawBuffers : cod = CodAt("buf", <<>>, <<b>>)

\* The caller builds the AVP.
AvpNew ==
    /\ cod.pc = "args"
    /\ LET r == NewAVP(cod.args[1].code, cod.args[1].flags, cod.args[1].vendor,
                       cod.args[1].data)
       IN cod' = IF r.panic THEN [cod EXCEPT !.pc = "panic"]
                 ELSE [cod EXCEPT !.pc = "built", !.a = r.a]
    /\ UNCHANGED <<srvVars, cliVars, par, duo>>

\* The caller serializes the AVP it built.
AvpSerialize ==
    /\ cod.pc = "built"
    /\ cod' = [cod EXCEPT !.pc = "serialized", !.out = <<Serialize(cod.a[1])>>]
    /\ UNCHANGED <<srvVars, cliVars, par, duo>>

\* DecodeAVP on the bytes Serialize returned, or on a raw buffer.
AvpDecode ==
    /\ \/ cod.pc = "buf"
       \/ cod.pc = "serialized" /\ cod.out[1].res = "ok"
    /\ LET b == IF cod.pc = "buf" THEN cod.buf[1]
                ELSE [mem |-> cod.out[1].bytes, len |-> Len(cod.out[1].bytes)]
       IN cod' = [cod EXCEPT !.pc = "decoded", !.buf = <<b>>,
                             !.dec = <<DecodeFromBytes(b)>>]
    /\ UNCHANGED <<srvVars, cliVars, par, duo>>

NextCodec == AvpNew \/ AvpSerialize \/ AvpDecode

SpecCodec == InitCodec /\ [][NextCodec]_vars

\* ------------------------------------------------------------------ parser runs
\* The application AVPs of a CER handed to the parser: up to MaxApps of them,
\* bare or inside a Vendor-Specific-Application-Id group.
RECURSIVE AppSeqs(_)
AppSeqs(n) ==
    IF n = 0 THEN {<<>>}
    ELSE AppSeqs(n - 1) \cup {Append(q, a) : q \in {x \in AppSeqs(n - 1) : Len(x) = n - 1},
                                             a \in AppAVPs}

ParserCERs ==
    {[cmd |-> "CER", flags |-> {"R"}, hbh |-> 1, ete |-> 1, rc |-> Nil,
      avps |-> oh \o or \o os \o ib \o apps] :
        oh \in OneOrNone(Leaf("Origin-Host", 0)),
        or \in OneOrNone(Leaf("Origin-Realm", 0)),
        os \in OneOrNone(Leaf("Origin-State-Id", 1)),
        ib \in {<<>>, <<Leaf("Inband-Security-Id", 0)>>, <<Leaf("Inband-Security-Id", 1)>>},
        apps \in AppSeqs(MaxApps)}

InitParser ==
    /\ InitServer /\ ClientStart(DefaultClient) /\ CodIdle /\ DuoIdle
    /\ \E m \in ParserCERs : par = [m |-> <<m>>, res |-> <<>>]

\* The test calls CER.Parse on the message.
ParseCER ==
    /\ par.m # <<>> /\ par.res = <<>>
    /\ par' = [par EXCEPT !.res = <<Parse(par.m[1])>>]
    /\ UNCHANGED <<srvVars, cliVars, cod, duo>>

SpecParser == InitParser /\ [][ParseCER]_vars

\* ------------------------------------------------------------------ parser claims
Has(m, code) == FindAVPs(m, code) # <<>>

\* The CER carries Origin-Host and Origin-Realm.
Sane(m) == Has(m, "Origin-Host") /\ Has(m, "Origin-Realm")

\* The CER carries an Inband-Security-Id other than NO_INBAND_SECURITY (0).
OffendingInband(m) ==
    \E k \in 1..Len(m.avps) :
        m.avps[k].code = "Inband-Security-Id" /\ m.avps[k].val # 0

AppCodes == {"Acct-Application-Id", "Auth-Application-Id"}

\* The dictionary declares id x under the kind of the AVP code.
Declared(code, x) ==
    \E d \in DOMAIN DictApps :
        d = x /\ DictApps[d] = (IF code = "Acct-Application-Id" THEN "acct" ELSE "auth")

Elems(q) == {q[k] : k \in 1..Len(q)}

\* The application AVPs of the message, top-level ones only.
TopApps(m) ==
    SelectSeq(m.avps, LAMBDA a : a.code \in AppCodes
                                 \/ a.code = "Vendor-Specific-Application-Id")

\* C13: a CER without Origin-Host fails with MissingOriginHost; with
\* Origin-Host but without Origin-Realm, with MissingOriginRealm; with both, no
\* offending Inband-Security-Id and no application AVP of any of the three
\* kinds, with MissingApplication.
C13_MissingAVPs ==
    par.res # <<>> =>
      LET m == par.m[1]
          r == par.res[1]
      IN /\ ~Has(m, "Origin-Host") => r.err = "MissingOriginHost"
         /\ Has(m, "Origin-Host") /\ ~Has(m, "Origin-Realm")
              => r.err = "MissingOriginRealm"
         /\ Sane(m) /\ ~OffendingInband(m) /\ TopApps(m) = <<>>
              => r.err = "MissingApplication"

C13_Witness ==
    /\ par.res # <<>>
    /\ Sane(par.m[1]) /\ TopApps(par.m[1]) = <<>>
    /\ Has(par.m[1], "Origin-State-Id")
    /\ par.res[1].err = "MissingApplication"

\* The sane CERs without offending inband security whose application AVPs are
\* all bare.
BareOnly(m) ==
    /\ Sane(m) /\ ~OffendingInband(m)
    /\ TopApps(m) # <<>>
    /\ \A a \in Elems(TopApps(m)) : a.code \in AppCodes

\* C14: a bare Acct-Application-Id (Auth-Application-Id) with id x is accepted
\* iff the dictionary declares x as an acct (auth) application; otherwise the
\* parse fails with NoCommonApplication whose ID is x; on success the parsed
\* applications contain x.  With several application AVPs the CER is accepted
\* iff each is, and the ID is that of one that is not.
C14_AppByKind ==
    (par.res # <<>> /\ BareOnly(par.m[1])) =>
      LET m == par.m[1]
          r == par.res[1]
          adv == Elems(TopApps(m))
          bad == {a \in adv : ~Declared(a.code, a.val)}
      IN /\ r.err = Nil <=> bad = {}
         /\ bad # {} => /\ r.err = "NoCommonApplication"
                         /\ \E a \in bad : r.id = <<a.val>>
         /\ bad = {} => \A a \in adv : a.val \in Elems(r.apps)
         /\ Len(TopApps(m)) = 1 /\ bad # {} => r.id = <<TopApps(m)[1].val>>

C14_Witness ==
    /\ par.res # <<>> /\ BareOnly(par.m[1])
    /\ TopApps(par.m[1]) = <<Leaf("Auth-Application-Id", 1001)>>
    /\ par.res[1].err = "NoCommonApplication" /\ par.res[1].id = <<1001>>

\* The message with every Vendor-Specific-Application-Id group replaced by the
\* AVPs it wraps.
RECURSIVE UnwrapAll(_)
UnwrapAll(avps) ==
    IF avps = <<>> THEN <<>>
    ELSE (IF avps[1].code = "Vendor-Specific-Application-Id"
          THEN avps[1].inner ELSE <<avps[1]>>) \o UnwrapAll(Tail(avps))

Unwrap(m) == [m EXCEPT !.avps = UnwrapAll(@)]

Outcome(r) == [err |-> r.err, id |-> r.id, apps |-> r.apps]

\* C15: a CER whose one application AVP is an Acct- or Auth-Application-Id
\* inside a Vendor-Specific-Application-Id group gets the outcome of the CER
\* with the same AVP sent bare: success with the applications being exactly
\* that id, or NoCommonApplication with that id.
C15_VendorSpecificSame ==
    (/\ par.res # <<>>
     /\ Len(TopApps(par.m[1])) = 1
     /\ TopApps(par.m[1])[1].code = "Vendor-Specific-Application-Id") =>
      LET m == par.m[1]
          r == par.res[1]
          x == TopApps(m)[1].inner[1].val
      IN /\ Outcome(r) = Outcome(Parse(Unwrap(m)))
         /\ Sane(m) /\ ~OffendingInband(m) =>
              \/ r.err = Nil /\ r.apps = <<x>>
              \/ r.err = "NoCommonApplication" /\ r.id = <<x>>

C15_Witness ==
    /\ par.res # <<>>
    /\ TopApps(par.m[1]) =
         <<Group("Vendor-Specific-Application-Id", <<Leaf("Acct-Application-Id", 1001)>>)>>
    /\ par.res[1].err = Nil /\ par.res[1].apps = <<1001>>

\* C16: with Origin-Host and Origin-Realm present, an Inband-Security-Id other
\* than 0 makes the parse fail with NoCommonSecurity, also when the CER has no
\* application AVP; an absent or zero Inband-Security-Id never yields
\* NoCommonSecurity.
C16_InbandSecurity ==
    par.res # <<>> =>
      LET m == par.m[1]
          r == par.res[1]
      IN /\ Sane(m) /\ OffendingInband(m) => r.err = "NoCommonSecurity"
         /\ ~OffendingInband(m) => r.err # "NoCommonSecurity"

C16_Witness ==
    /\ par.res # <<>>
    /\ Sane(par.m[1]) /\ OffendingInband(par.m[1]) /\ TopApps(par.m[1]) = <<>>
    /\ par.res[1].err = "NoCommonSecurity"

\* ------------------------------------------------------------------ codec claims
\* NewAVP returned an AVP.
Built == cod.a # <<>>

\* C17: for every code, flags, vendor and data, the V-bit of the Flags of the
\* AVP NewAVP returns is set iff vendor # 0.
C17_VbitIffVendor ==
    Built => (HasVbit(cod.a[1].Flags) <=> cod.args[1].vendor # 0)

\* C18: for every AVP built by NewAVP (any flags, vendor zero or not, any
\* payload length) whose code the dictionary knows, Serialize succeeds and
\* decoding the bytes yields an AVP with the same Code, Flags, VendorID, Length
\* and Data.
C18_RoundTrip ==
    (Built /\ cod.a[1].Code \in DictAVPs) =>
      /\ cod.out # <<>> => cod.out[1].res = "ok"
      /\ cod.dec # <<>> => /\ cod.dec[1].res = "ok"
                           /\ cod.dec[1].a = cod.a

\* ceil(n / 4) * 4
Pad4(n) == ((n + 3) \div 4) * 4

\* C19: for every AVP with non-nil Data, Serialize returns exactly
\* ceil(L/4)*4 bytes, L = headerLen + Data.Len() being the value written in
\* the 3-byte length field (header 12 with the V-bit, else 8); the payload is
\* written in full after the header and every byte after it is zero.
C19_SerializedSize ==
    (Built /\ cod.out # <<>>) =>
      LET a == cod.a[1]
          hl == IF HasVbit(a.Flags) THEN 12 ELSE 8
          L == hl + Len(a.Data[1])
          b == cod.out[1].bytes
      IN /\ cod.out[1].res = "ok"
         /\ Len(b) = Pad4(L)
         /\ BytesU24(Slice(b, 5, 8)) = L
         /\ Slice(b, hl, L) = a.Data[1]
         /\ \A k \in (L + 1)..Len(b) : b[k] = 0

\* The decoder ran on a raw buffer of at least 8 bytes.
DecodedRaw == cod.pc = "decoded" /\ cod.args = <<>> /\ cod.buf[1].len >= 8

\* C20: decoding an AVP whose length field is below 8 returns a ShortHeader
\* error, whatever the size of the buffer (8 bytes or more included).
C20_ShortDeclaredLength ==
    (DecodedRaw /\ BytesU24(Slice(cod.buf[1].mem, 5, 8)) < 8) =>
      (cod.dec[1].res = "error" /\ cod.dec[1].err = "ShortHeader")

\* ------------------------------------------------------------------ cancellation
\* The watchdog goroutine is running.
WdRunning == wd.pc \in {"idle", "select"}

\* DWRs written so far.
SentDWRs == SelectSeq(Sent, LAMBDA m : m.cmd = "DWR")

C12_HandshakeStopsOnClose ==
    [][(hs.pc = "select" /\ cconn.closed /\ hs' # hs)
         => (hs'.pc = "done" /\ hist'.hsTimeouts = hist.hsTimeouts)]_vars

\* C21: for every AVP built by NewAVP the stored Length is the header size of
\* the AVP as constructed (12 when its Flags carry the V-bit, else 8) plus
\* Data.Len(), and Len() is that sum rounded up to a multiple of 4; also for a
\* non-zero vendor passed with flags that lack the V-bit.
C21_LengthAsConstructed ==
    Built =>
      LET a == cod.a[1]
          hl == IF HasVbit(a.Flags) THEN 12 ELSE 8
      IN /\ a.Length = hl + Len(a.Data[1])
         /\ AVPLen(a) = Pad4(hl + Len(a.Data[1]))

\* ------------------------------------------------------------------ more server claims
\* C22: on a connection whose context already holds peer metadata a further
\* CER, well-formed or not, is ignored: nothing is written, the connection is
\* not closed, the context is unchanged, no handshake notification is emitted
\* and nothing is reported.
C22_RetransmissionIgnored ==
    [][srv.conn.ctx # <<>> =>
         /\ srv'.conn = srv.conn
         /\ srv'.notified = srv.notified
         /\ srv'.ctxWrites = srv.ctxWrites
         /\ srv'.errors = srv.errors]_vars

\* A CER that would fail parsing arrived after the handshake had passed and
\* been notified.
C22_Witness ==
    /\ lastCER # <<>>
    /\ lastCER[1].before.ctx # <<>>
    /\ lastCER[1].cer.err # Nil
    /\ srv.conn = lastCER[1].before
    /\ ~srv.conn.closed
    /\ srv.notified = 1

\* C23: every run of handleCER that attaches peer metadata delivers the
\* connection on the handshake-notify channel: one notification per passed
\* handshake, no more and no fewer.
C23_NotifiedExactlyOnce == srv.notified = srv.ctxWrites

\* The error CEA the last run of handleCER wrote.
LastAnswer == NewEvents[1].msg

C25_TotalOnVbitHeaders ==
    (/\ DecodedRaw
     /\ HasVbit(cod.buf[1].mem[5])
     /\ \/ BytesU24(Slice(cod.buf[1].mem, 5, 8)) < 12
        \/ cod.buf[1].len < 12) =>
      cod.dec[1].res = "error"

\* ------------------------------------------------------------------ two handshakes
\* Two Client.Dial calls on the same StateMachine, one per connection.  duo
\* holds MaxRetransmits (n), the handshake whose handleCEA closure the shared
\* mux has under "CEA" (mux, 0: none), each handshake's position, whether a
\* CER was written on each connection (cer, a peer answers only then), each
\* connection's closed flag and reader goroutine, the verdicts of the CEAs
\* received on each connection (cea) and, for each handshake ended by a CEA,
\* the connection that CEA arrived on (by).
Conns == {1, 2}

\* Mux.Handle: registration by name, the last writer wins.
Handle(mux, k) == k

InitTwoDials ==
    /\ InitServer /\ ClientStart(DefaultClient) /\ ParIdle /\ CodIdle
    /\ \E n \in 0..MaxN :
         duo = [n |-> n, mux |-> 0,
                hs |-> [k \in Conns |-> [pc |-> "init", i |-> 0, err |-> Nil]],
                cer |-> [k \in Conns |-> FALSE],
                closed |-> [k \in Conns |-> FALSE],
                reader |-> [k \in Conns |-> "run"],
                cea |-> [k \in Conns |-> <<>>],
                by |-> [k \in Conns |-> 0]]

\* handshake returns on connection k with the given error (Nil: success).
Return(d, k, err) == [d EXCEPT !.hs[k].pc = "done", !.hs[k].err = err]

\* One pass of handshake k's loop up to the select.
TwoSend(d, k, ioOK) ==
    IF ioOK THEN [d EXCEPT !.hs[k].pc = "select", !.cer[k] = TRUE]
    ELSE Return(d, k, "WriteError")

\* Client.dial on connection k: handshake registers its handlers on the
\* state machine's mux and runs up to its first select.
TwoDial ==
    /\ \E k \in Conns, addrOK \in BOOLEAN, ioOK \in BOOLEAN :
         /\ duo.hs[k].pc = "init"
         /\ duo' = IF ~addrOK THEN Return(duo, k, "AddrError")
                   ELSE LET d == [duo EXCEPT !.mux = Handle(@, k)]
                        IN IF 0 < handshakeAttempts(duo.n) THEN TwoSend(d, k, ioOK)
                           ELSE Return([d EXCEPT !.closed[k] = TRUE], k,
                                       "ErrHandshakeTimeout")
    /\ UNCHANGED <<srvVars, cliVars, par, cod>>

\* The peer of connection c answers the CER with a CEA and the connection's
\* reader hands it to the mux: the registered
\* handleCEA closure sends its verdict on the errc of the handshake that
\* registered it.  That handshake takes it from its select, or has returned
\* and the reader is stuck in the send.
TwoRecvCEA ==
    /\ \E c \in Conns, cea \in CEAs :
         /\ duo.cer[c]
         /\ ~duo.closed[c]
         /\ duo.reader[c] = "run"
         /\ duo.mux # 0
         /\ Len(duo.cea[c]) < MaxCEAs
         /\ LET j == duo.mux
                err == ParseCEA(cea)
                d == [duo EXCEPT !.cea[c] = Append(@, err)]
            IN duo' = IF d.hs[j].pc = "select"
                      THEN Return([d EXCEPT !.by[j] = c], j, err)
                      ELSE [d EXCEPT !.reader[c] = "stuck"]
    /\ UNCHANGED <<srvVars, cliVars, par, cod>>

\* The select of handshake k takes its timer: next pass, or Close and
\* ErrHandshakeTimeout.
TwoTimeout ==
    /\ \E k \in Conns, ioOK \in BOOLEAN :
         /\ duo.hs[k].pc = "select"
         /\ LET d == [duo EXCEPT !.hs[k].i = @ + 1]
            IN duo' = IF d.hs[k].i < handshakeAttempts(duo.n) THEN TwoSend(d, k, ioOK)
                      ELSE Return([d EXCEPT !.closed[k] = TRUE], k,
                                  "ErrHandshakeTimeout")
    /\ UNCHANGED <<srvVars, cliVars, par, cod>>

NextTwoDials == TwoDial \/ TwoRecvCEA \/ TwoTimeout

SpecTwoDials == InitTwoDials /\ [][NextTwoDials]_vars

\* C26: with two handshakes on one state machine, a handshake returns success
\* only if a valid CEA was received on the connection it dialed, and a
\* handshake ended by a CEA was ended by a CEA of its own connection.
C26_OwnConnectionOnly ==
    \A k \in Conns :
        duo.hs[k].pc = "done" =>
          /\ duo.hs[k].err = Nil => \E x \in 1..Len(duo.cea[k]) : duo.cea[k][x] = Nil
          /\ duo.by[k] \in {0, k}
====
